---------------------------- MODULE Spec2Model ----------------------------
(***************************************************************************)
(* Model of the DA Form 2404 stamper (src/api/src/python/index.py): the    *)
(* Lambda handler, the value resolver, the remarks row table, the line     *)
(* wrapper and the page compositor.                                        *)
(*                                                                         *)
(* Text is a sequence of characters (one-character strings); the ellipsis  *)
(* character U+2026 is written "ELL".  Widths are in thousandths of a      *)
(* point, so the float comparisons of the source are exact here.           *)
(***************************************************************************)
EXTENDS Integers, Sequences, FiniteSets, TLC

VARIABLES
    env,        \* the deployed template file (TEMPLATE_PATH and what is at it)
    today,      \* the UTC day datetime.now() reports, as a day offset
    ses,        \* module global _ses: TRUE once the client was created
    ddb,        \* module global _ddb_cli: TRUE once the client was created
    pc,         \* where lambda_handler is in the current invocation
    event,      \* the event of the current invocation
    tmpl,       \* local tmpl: the template bytes read
    values,     \* local values: the resolved ValueRecord
    canvas,     \* drawString calls of the single-line fields, in order
    rowsDrawn,  \* drawString texts of the remarks table, one sequence per row
    out,        \* local pdf_bytes: the pages of the output document
    resp,       \* the response returned
    outbox,     \* what the invocation handed to SES
    prev,       \* the last stamping of this same event, if any (history)
    wrapCall    \* a call of _wrap_to_width on its own: arguments and result

vars == <<env, today, ses, ddb, pc, event, tmpl, values, canvas, rowsDrawn,
          out, resp, outbox, prev, wrapCall>>

handlerVars == <<env, today, ses, ddb, pc, event, tmpl, values, canvas,
                 rowsDrawn, out, resp, outbox, prev>>

(***************************************************************************)
(* Bounds of the model.                                                    *)
(***************************************************************************)
MaxDay == 1
MaxPages == 3
MaxExtraRows == 2
MaxTextLen == 6

(***************************************************************************)
(* Python values: None, a str, a number.                                   *)
(***************************************************************************)
None == [t |-> "none", s |-> <<>>, n |-> 0, items |-> <<>>]
Str(s) == [t |-> "str", s |-> s, n |-> 0, items |-> <<>>]
Num(n) == [t |-> "num", s |-> <<>>, n |-> n, items |-> <<>>]
List(xs) == [t |-> "list", s |-> <<>>, n |-> 0, items |-> xs]

\* Python truthiness: `v if v else ...`, `v or ...`
Truthy(v) ==
    CASE v.t = "none" -> FALSE
      [] v.t = "str" -> v.s # <<>>
      [] v.t = "num" -> v.n # 0
      [] v.t = "list" -> v.items # <<>>

\* str(v), for the values of the model (numbers below 100)
Digit(d) == <<"0", "1", "2", "3", "4", "5", "6", "7", "8", "9">>[d + 1]

pystr(v) ==
    CASE v.t = "str" -> v.s
      [] v.t = "num" -> IF v.n < 10 THEN <<Digit(v.n)>>
                        ELSE <<Digit(v.n \div 10), Digit(v.n % 10)>>
      [] v.t = "none" -> <<"N", "o", "n", "e">>
      [] v.t = "list" -> <<"[", "]">>

(***************************************************************************)
(* str methods                                                             *)
(***************************************************************************)
ELL == "ELL"

isspace(c) == c \in {" ", "\n"}

RECURSIVE lstrip(_)
lstrip(s) == IF s # <<>> /\ isspace(Head(s)) THEN lstrip(Tail(s)) ELSE s

RECURSIVE rstrip(_)
rstrip(s) ==
    IF s # <<>> /\ isspace(s[Len(s)]) THEN rstrip(SubSeq(s, 1, Len(s) - 1)) ELSE s

strip(s) == rstrip(lstrip(s))

\* the k-th smallest element of a set of numbers
Nth(S, k) == CHOOSE i \in S : Cardinality({j \in S : j < i}) = k - 1

\* str.split(): the maximal runs of non-whitespace, in order
split(s) ==
    LET starts == {i \in 1..Len(s) :
                      ~isspace(s[i]) /\ (i = 1 \/ isspace(s[i - 1]))}
        stop(i) == CHOOSE j \in i..Len(s) :
                      /\ \A k \in i..j : ~isspace(s[k])
                      /\ (j = Len(s) \/ isspace(s[j + 1]))
    IN  [k \in 1..Cardinality(starts) |->
            SubSeq(s, Nth(starts, k), stop(Nth(starts, k)))]

\* str.splitlines(): the text between line breaks; a line break at the end
\* of the text starts no further line
splitlines(s) ==
    LET breaks == {i \in 1..Len(s) : s[i] = "\n"}
        ends == breaks \cup (IF s # <<>> /\ s[Len(s)] # "\n" THEN {Len(s) + 1} ELSE {})
        from(k) == IF k = 1 THEN 1 ELSE Nth(ends, k - 1) + 1
    IN  [k \in 1..Cardinality(ends) |-> SubSeq(s, from(k), Nth(ends, k) - 1)]

\* str.replace("\n", " ")
replaceNewlines(s) == [i \in 1..Len(s) |-> IF s[i] = "\n" THEN " " ELSE s[i]]

(***************************************************************************)
(* pdfmetrics.stringWidth for Helvetica: the sum of the glyph widths (AFM  *)
(* units, 1/1000 of the font size), times the size.  The result is in      *)
(* thousandths of a point.                                                 *)
(***************************************************************************)
glyphWidth(c) ==
    CASE c = " " -> 278
      [] c = ELL -> 1000
      [] c \in {"W"} -> 944
      [] c \in {"M", "m"} -> 833
      [] c \in {"R", "w"} -> 722
      [] c \in {"A", "B", "E", "K", "S"} -> 667
      [] c \in {"<", ">"} -> 584
      [] c \in {"k", "s"} -> 500
      [] c \in {"r", "(", ")", "-"} -> 333
      [] c \in {"i"} -> 222
      [] OTHER -> 556

\* the sum of the glyph widths of s, one distinct width at a time
RECURSIVE widthSum(_, _)
widthSum(widths, s) ==
    IF widths = {} THEN 0
    ELSE LET w == CHOOSE v \in widths : TRUE
         IN  w * Cardinality({i \in 1..Len(s) : glyphWidth(s[i]) = w})
             + widthSum(widths \ {w}, s)

glyphSum(s) == widthSum({glyphWidth(s[i]) : i \in 1..Len(s)}, s)

stringWidth(s, size) == size * glyphSum(s)

\* a width in points, in the unit of stringWidth
Points(p) == 1000 * p

(***************************************************************************)
(* _wrap_to_width: greedy word wrap.  The loop over words, with the local  *)
(* variables lines and cur.                                                *)
(***************************************************************************)
\* line 120-121: if cur: lines.append(cur)
wrapFlush(cur, lines) == IF cur # <<>> THEN Append(lines, cur) ELSE lines

\* a wrapper that measures the line and the word apart, without the space
\* that joins them
RECURSIVE wrapLoopJoinUnmeasured(_, _, _, _, _)
wrapLoopJoinUnmeasured(words, lines, cur, max_width, size) ==
    IF words = <<>> THEN wrapFlush(cur, lines)
    ELSE IF stringWidth(cur, size) + stringWidth(Head(words), size) <= max_width
         THEN wrapLoopJoinUnmeasured(Tail(words), lines,
                                     strip(cur \o <<" ">> \o Head(words)),
                                     max_width, size)
         ELSE wrapLoopJoinUnmeasured(Tail(words), wrapFlush(cur, lines),
                                     Head(words), max_width, size)

RECURSIVE wrapLoop(_, _, _, _, _)
wrapLoop(words, lines, cur, max_width, size) ==
    IF words = <<>> THEN wrapFlush(cur, lines)
    ELSE LET w == Head(words)
             test == strip(cur \o <<" ">> \o w)
         IN  IF stringWidth(test, size) <= max_width
             THEN wrapLoop(Tail(words), lines, test, max_width, size)
             ELSE wrapLoop(Tail(words), wrapFlush(cur, lines), w, max_width, size)

_wrap_to_width(text, max_width, size) ==
    wrapLoop(split(text), <<>>, <<>>, max_width, size)


(***************************************************************************)
(* PDF layout tables                                                       *)
(***************************************************************************)
\* the keys of FIELD_COORDS, in the order of the dict
FieldOrder ==
    <<"ORGANIZATION", "NOMENCLATURE", "MODEL", "SERIAL_NUMBER",
      "TYPE_OF_INSPECTION", "TM_NUMBER", "TM_DATE", "MILES", "HOURS", "ROUNDS",
      "HOTSTARTS", "DATE", "TM2_NUMBER", "TM2_DATE">>

FieldKeys == {FieldOrder[i] : i \in 1..Len(FieldOrder)}

FIELD_COORDS(k) ==
    CASE k = "ORGANIZATION" -> <<90, 720>>
      [] k = "NOMENCLATURE" -> <<390, 720>>
      [] k = "MODEL" -> <<500, 720>>
      [] k = "SERIAL_NUMBER" -> <<90, 690>>
      [] k = "TYPE_OF_INSPECTION" -> <<490, 690>>
      [] k = "TM_NUMBER" -> <<90, 660>>
      [] k = "TM_DATE" -> <<220, 660>>
      [] k = "MILES" -> <<190, 690>>
      [] k = "HOURS" -> <<250, 690>>
      [] k = "ROUNDS" -> <<290, 690>>
      [] k = "HOTSTARTS" -> <<340, 690>>
      [] k = "DATE" -> <<400, 690>>
      [] k = "TM2_NUMBER" -> <<330, 660>>
      [] k = "TM2_DATE" -> <<500, 660>>

REMARKS_TABLE ==
    [x |-> 110, y_start |-> 364, row_gap |-> 24, max_rows |-> 28,
     max_width |-> 194, size |-> 8, wrap_gap |-> 10]

PLACEHOLDERS(k) ==
    CASE k = "ORGANIZATION" ->
            <<"<", "o", "r", "g", "a", "n", "i", "z", "a", "t", "i", "o",
              "n", ">">>
      [] k = "NOMENCLATURE" ->
            <<"<", "n", "o", "m", "e", "n", "c", "l", "a", "t", "u", "r",
              "e", ">">>
      [] k = "MODEL" -> <<"<", "m", "o", "d", "e", "l", ">">>
      [] k = "SERIAL_NUMBER" -> <<"<", "s", "e", "r", "i", "a", "l", ">">>
      [] k = "MILES" -> <<"<", "m", "i", "l", "e", "s", ">">>
      [] k = "HOURS" -> <<"<", "h", "o", "u", "r", "s", ">">>
      [] k = "ROUNDS" -> <<"<", "r", "o", "u", "n", "d", "s", ">">>
      [] k = "HOTSTARTS" ->
            <<"<", "h", "o", "t", "s", "t", "a", "r", "t", "s", ">">>
      [] k = "DATE" ->
            <<"<", "y", "y", "y", "y", "-", "m", "m", "-", "d", "d", ">">>
      [] k = "TYPE_OF_INSPECTION" ->
            <<"<", "i", "n", "s", "p", "e", "c", "t", "i", "o", "n", "T",
              "y", "p", "e", ">">>
      [] k = "TM_NUMBER" ->
            <<"<", "t", "m", "N", "u", "m", "b", "e", "r", ">">>
      [] k = "TM_DATE" -> <<"<", "t", "m", "D", "a", "t", "e", ">">>
      [] k = "TM2_NUMBER" ->
            <<"<", "t", "m", "2", "N", "u", "m", "b", "e", "r", ">">>
      [] k = "TM2_DATE" -> <<"<", "t", "m", "2", "D", "a", "t", "e", ">">>
      [] k = "REMARKS" ->
            <<"<", "r", "e", "m", "a", "r", "k", "s", " ", "r", "o", "w",
              ">">>

LabelKeys ==
    FieldKeys \cup {"SERIAL NUMBER", "REMARKS"}

LABELS(k) ==
    CASE k = "ORGANIZATION" ->
            <<"O", "R", "G", "A", "N", "I", "Z", "A", "T", "I", "O", "N">>
      [] k = "NOMENCLATURE" ->
            <<"N", "O", "M", "E", "N", "C", "L", "A", "T", "U", "R", "E">>
      [] k = "MODEL" -> <<"M", "O", "D", "E", "L">>
      [] k = "SERIAL NUMBER" ->
            <<"S", "E", "R", "I", "A", "L", " ", "N", "U", "M", "B", "E",
              "R">>
      [] k = "SERIAL_NUMBER" ->
            <<"S", "E", "R", "I", "A", "L", " ", "N", "U", "M", "B", "E",
              "R">>
      [] k = "MILES" -> <<"M", "I", "L", "E", "S">>
      [] k = "HOURS" -> <<"H", "O", "U", "R", "S">>
      [] k = "ROUNDS" -> <<"R", "O", "U", "N", "D", "S">>
      [] k = "HOTSTARTS" -> <<"H", "O", "T", "S", "T", "A", "R", "T", "S">>
      [] k = "DATE" -> <<"D", "A", "T", "E">>
      [] k = "TYPE_OF_INSPECTION" ->
            <<"T", "Y", "P", "E", " ", "O", "F", " ", "I", "N", "S", "P",
              "E", "C", "T", "I", "O", "N">>
      [] k = "TM_NUMBER" -> <<"T", "M", " ", "N", "U", "M", "B", "E", "R">>
      [] k = "TM_DATE" -> <<"T", "M", " ", "D", "A", "T", "E">>
      [] k = "TM2_NUMBER" ->
            <<"T", "M", "2", " ", "N", "U", "M", "B", "E", "R">>
      [] k = "TM2_DATE" -> <<"T", "M", "2", " ", "D", "A", "T", "E">>
      [] k = "REMARKS" -> <<"R", "E", "M", "A", "R", "K", "S">>

\* LABELS.get(k, k)
LABELS_get(k) == IF k \in LabelKeys THEN LABELS(k) ELSE <<k>>

(***************************************************************************)
(* to_pdf_values: the value resolver.  A payload is a function from its    *)
(* keys to values, None standing for an absent key (the code reads it with *)
(* payload.get only).  day is what datetime.now(timezone.utc) reports.     *)
(***************************************************************************)
\* the payload key read for each field (lines 239-252)
InputName(k) ==
    CASE k = "ORGANIZATION" -> "organization"
      [] k = "NOMENCLATURE" -> "nomenclature"
      [] k = "MODEL" -> "model"
      [] k = "SERIAL_NUMBER" -> "serial"
      [] k = "MILES" -> "miles"
      [] k = "HOURS" -> "hours"
      [] k = "ROUNDS" -> "rounds"
      [] k = "HOTSTARTS" -> "hotstarts"
      [] k = "DATE" -> "date"
      [] k = "TYPE_OF_INSPECTION" -> "inspectionType"
      [] k = "TM_NUMBER" -> "tmNumber"
      [] k = "TM_DATE" -> "tmDate"
      [] k = "TM2_NUMBER" -> "tm2Number"
      [] k = "TM2_DATE" -> "tm2Date"

InputNames == {InputName(k) : k \in FieldKeys}

\* strftime("%Y-%m-%d") of the day `day` days after 2024-01-01 (day < 31)
strftime(day) ==
    <<"2", "0", "2", "4", "-", "0", "1", "-",
      Digit((day + 1) \div 10), Digit((day + 1) % 10)>>

pick(payload, name, key) ==
    LET v0 == payload[name]
        v == IF v0.t = "str" THEN Str(strip(v0.s)) ELSE v0
    IN  IF Truthy(v) THEN v ELSE Str(PLACEHOLDERS(key))

\* line 247: payload.get("date") or datetime.now(timezone.utc).strftime(...)
dateValue(payload, day) ==
    IF Truthy(payload["date"]) THEN payload["date"] ELSE Str(strftime(day))

\* a filter that keeps every row that is not empty: `if s`
nonEmpty(s) == s # <<>>

nonBlank(s) == strip(s) # <<>>

\* line 234: [s for s in r_legacy.splitlines() if s.strip()]
legacyRows(text) ==
    LET kept == SelectSeq(splitlines(text), nonBlank)
    IN  [i \in 1..Len(kept) |-> Str(kept[i])]

\* lines 228-236
remarksList(payload) ==
    IF payload["remarksList"].t # "none" THEN payload["remarksList"]
    ELSE LET r_legacy == payload["remarks"]
         IN  CASE r_legacy.t = "list" -> r_legacy
               [] r_legacy.t = "str" -> List(legacyRows(r_legacy.s))
               [] OTHER -> List(<<Str(PLACEHOLDERS("REMARKS"))>>)

\* lines 216-220
labelValues ==
    [fields |-> [k \in FieldKeys \cup {"REMARKS"} |-> Str(LABELS_get(k))],
     REMARKS_LIST |->
        List(<<Str(<<"R", "E", "M", "A", "R", "K", "S">>),
               Str(<<"R", "E", "M", "A", "R", "K", "S", " ", "(", "r", "o",
                     "w", " ", "2", ")">>)>>)]

\* a labels mode that prints the label only where no value is supplied
to_pdf_values_labelFallback(payload, day) ==
    IF Truthy(payload["_labels"])
    THEN [labelValues EXCEPT !.fields =
             [k \in FieldKeys \cup {"REMARKS"} |->
                 IF k \in FieldKeys /\ Truthy(payload[InputName(k)])
                 THEN payload[InputName(k)] ELSE Str(LABELS_get(k))]]
    ELSE [fields |->
             [k \in FieldKeys |->
                 IF k = "DATE" THEN dateValue(payload, day)
                 ELSE pick(payload, InputName(k), k)],
          REMARKS_LIST |-> remarksList(payload)]

to_pdf_values(payload, day) ==
    IF Truthy(payload["_labels"]) THEN labelValues
    ELSE [fields |->
             [k \in FieldKeys |->
                 IF k = "DATE" THEN dateValue(payload, day)
                 ELSE pick(payload, InputName(k), k)],
          REMARKS_LIST |-> remarksList(payload)]

(***************************************************************************)
(* _draw_remarks_list.  The result is [ok, rows]: ok is FALSE when the     *)
(* code raises; rows holds, per table row drawn, its drawString calls      *)
(* under lines, and what the truncation did (wrapped: the number of lines  *)
(* the item wraps to; kept: the last kept line before shrinking; steps:    *)
(* the iterations of the shrinking loop).                                  *)
(***************************************************************************)
\* lines 128-137
remarksRows(vals) ==
    LET given == vals.REMARKS_LIST
        rows == IF given.t # "none" THEN given
                ELSE LET legacy == IF "REMARKS" \in DOMAIN vals.fields
                                   THEN vals.fields["REMARKS"] ELSE Str(<<>>)
                     IN  IF legacy.t = "list" THEN legacy
                         ELSE LET s == strip(IF Truthy(legacy) THEN legacy.s ELSE <<>>)
                                  ls == SelectSeq(splitlines(s), LAMBDA r : r # <<>>)
                              IN  List([i \in 1..Len(ls) |-> Str(ls[i])])
    IN  IF Truthy(rows) THEN rows ELSE List(<<Str(PLACEHOLDERS("REMARKS"))>>)

\* lines 155-157
maxLinesInRow ==
    LET size_pad == 2
        avail == IF REMARKS_TABLE.row_gap - size_pad > 0
                 THEN REMARKS_TABLE.row_gap - size_pad ELSE 0
        gap == IF REMARKS_TABLE.wrap_gap > 1 THEN REMARKS_TABLE.wrap_gap ELSE 1
        n == 1 + (avail \div gap)
    IN  IF n > 1 THEN n ELSE 1

ell == <<" ", ELL>>

\* a truncation that appends the ellipsis without shrinking the line
shrinkNever(last, max_width, size, steps) == [last |-> last, steps |-> steps]

\* lines 163-164: the shrinking loop, counting its iterations
RECURSIVE shrink(_, _, _, _)
shrink(last, max_width, size, steps) ==
    IF last # <<>> /\ stringWidth(last \o ell, size) > max_width
    THEN shrink(rstrip(SubSeq(last, 1, Len(last) - 1)), max_width, size, steps + 1)
    ELSE [last |-> last, steps |-> steps]

\* line 165: visible[-1] = (last + ell) if last else "..."
fitted(visible, sh) ==
    [lines |-> [visible EXCEPT ![Len(visible)] =
                   IF sh.last # <<>> THEN sh.last \o ell ELSE <<ELL>>],
     kept |-> visible[Len(visible)], steps |-> sh.steps]

\* lines 159-166
truncateRow(wrapped, max_lines, max_width, size) ==
    IF Len(wrapped) > max_lines
    THEN fitted(SubSeq(wrapped, 1, max_lines),
                shrink(wrapped[max_lines], max_width, size, 0))
    ELSE [lines |-> wrapped, kept |-> <<>>, steps |-> 0]

\* lines 168-169: the drawString calls of a row whose top line is at y
drawLines(tr, wrapped, y) ==
    [lines |-> [i \in 1..Len(tr.lines) |->
                   [x |-> REMARKS_TABLE.x,
                    y |-> y - (i - 1) * REMARKS_TABLE.wrap_gap,
                    text |-> tr.lines[i]]],
     wrapped |-> Len(wrapped), kept |-> tr.kept, steps |-> tr.steps]

rowLayout(wrapped, y) ==
    drawLines(truncateRow(wrapped, maxLinesInRow,
                          Points(REMARKS_TABLE.max_width), REMARKS_TABLE.size),
              wrapped, y)

\* lines 150-171, one iteration: the row of item raw, whose top line is at y
drawRow(raw, y) ==
    rowLayout(_wrap_to_width(strip(replaceNewlines(pystr(raw))),
                             Points(REMARKS_TABLE.max_width), REMARKS_TABLE.size),
              y)

\* a loop over all of rows
firstRowsUncapped(items) == items

\* line 150: rows[:max_rows]
firstRows(items) ==
    SubSeq(items, 1, IF Len(items) < REMARKS_TABLE.max_rows
                     THEN Len(items) ELSE REMARKS_TABLE.max_rows)

\* what iterating rows yields: the items of a list, the characters of a str
rowItems(rows) ==
    IF rows.t = "str" THEN [i \in 1..Len(rows.s) |-> Str(<<rows.s[i]>>)]
    ELSE rows.items

\* lines 150-171: the loop; y goes down by row_gap per row
drawRows(shown) ==
    [r \in 1..Len(shown) |->
        drawRow(shown[r],
                REMARKS_TABLE.y_start - (r - 1) * REMARKS_TABLE.row_gap)]

\* slicing a number raises TypeError
drawRemarks(rows) ==
    IF rows.t = "num" THEN [ok |-> FALSE, rows |-> <<>>]
    ELSE [ok |-> TRUE, rows |-> drawRows(firstRows(rowItems(rows)))]

_draw_remarks_list(vals) == drawRemarks(remarksRows(vals))

(***************************************************************************)
(* make_overlay and stamp.  A template is [kind, pages]; kind "pdf" is a   *)
(* readable document, anything else makes PdfReader raise.  A page is      *)
(* [id, mediabox, merged]: merged lists the overlays merged onto it.       *)
(***************************************************************************)
Page(i) == [id |-> i, mediabox |-> <<612, 792>>, merged |-> <<>>]

\* lines 180-183; ok is FALSE when .strip() is called on a value that is no str
RECURSIVE drawFields(_, _, _)
drawFields(i, vals, ops) ==
    IF i > Len(FieldOrder) THEN [ok |-> TRUE, ops |-> ops]
    ELSE LET field == FieldOrder[i]
             v == IF field \in DOMAIN vals.fields THEN vals.fields[field] ELSE None
         IN  IF ~Truthy(v) THEN drawFields(i + 1, vals, ops)
             ELSE IF v.t # "str" THEN [ok |-> FALSE, ops |-> <<>>]
             ELSE LET val == strip(v.s)
                      xy == FIELD_COORDS(field)
                  IN  drawFields(i + 1, vals,
                         IF val # <<>>
                         THEN Append(ops, [x |-> xy[1], y |-> xy[2], text |-> val])
                         ELSE ops)

\* the overlay page, or the exception of either part
overlayOf(page_w, page_h, rem, fl) ==
    IF rem.ok /\ fl.ok
    THEN [ok |-> TRUE, pagesize |-> <<page_w, page_h>>,
          rows |-> rem.rows, ops |-> fl.ops]
    ELSE [ok |-> FALSE, pagesize |-> <<page_w, page_h>>,
          rows |-> <<>>, ops |-> <<>>]

make_overlay(page_w, page_h, vals) ==
    overlayOf(page_w, page_h, _draw_remarks_list(vals), drawFields(1, vals, <<>>))

\* line 199: page.merge_page(overlay.pages[0])
merge_page(page, overlay) ==
    [page EXCEPT !.merged = Append(@, overlay.pagesize)]

\* a loop that merges the overlay onto every page
stampPagesAll(pages, overlay) ==
    [i \in 1..Len(pages) |-> merge_page(pages[i], overlay)]

\* lines 197-200
stampPages(pages, overlay) ==
    [i \in 1..Len(pages) |->
        IF i = 1 THEN merge_page(pages[i], overlay) ELSE pages[i]]

Failed == [ok |-> FALSE, pages |-> <<>>, rows |-> <<>>, ops |-> <<>>]

\* lines 197-205, once the overlay is made
compose(pages, overlay) ==
    IF ~overlay.ok THEN Failed
    ELSE [ok |-> TRUE, pages |-> stampPages(pages, overlay),
          rows |-> overlay.rows, ops |-> overlay.ops]

\* a stamp that sizes the overlay as US Letter instead of reading page 1
stampFixedSize(template_bytes, vals) ==
    IF template_bytes.kind # "pdf" THEN Failed
    ELSE compose(template_bytes.pages, make_overlay(612, 792, vals))

\* PdfReader raises on what is no PDF; tmpl.pages[0] on a document of no page
stamp(template_bytes, vals) ==
    IF template_bytes.kind # "pdf" THEN Failed
    ELSE IF template_bytes.pages = <<>> THEN Failed
    ELSE compose(template_bytes.pages,
                 make_overlay(template_bytes.pages[1].mediabox[1],
                              template_bytes.pages[1].mediabox[2], vals))

(***************************************************************************)
(* The inputs of the model: deployments, payloads, events.                 *)
(***************************************************************************)
Rep(c, n) == [i \in 1..n |-> c]

\* words joined by single spaces
RECURSIVE Join(_)
Join(ws) ==
    IF ws = <<>> THEN <<>>
    ELSE IF Len(ws) = 1 THEN ws[1]
    ELSE ws[1] \o <<" ">> \o Join(Tail(ws))

\* remarks items: at 8 pt a line of 194 pt holds 25 "W" and not 26
itA == Str(<<"a">>)
itBlank == Str(<<>>)
itWs == Str(<<" ">>)
itNl == Str(<<"a", "\n", "b">>)
it2 == Str(Join(Rep(Rep("W", 10), 3)))
it3 == Str(Join(Rep(Rep("W", 10), 5)))
it4 == Str(Join(Rep(Rep("W", 10), 7)))
itShrink ==
    Str(Join(<<Rep("W", 12), Rep("W", 13), Rep("W", 12), Rep("W", 13),
               Rep("W", 12), Rep("W", 13), Rep("W", 12)>>))
itShrinkSp ==
    Str(Join(<<Rep("W", 23), <<"a">>, <<"a">>, Rep("W", 23), <<"a">>, <<"a">>,
               Rep("W", 23), <<"a">>, <<"a">>, Rep("W", 23)>>))
itBig == Str(Rep("W", 26))
itBig4 == Str(Join(Rep(Rep("W", 26), 4)))

ShortLists ==
    {<<>>, <<itBlank>>, <<itWs, itBlank>>, <<itA>>, <<itNl>>, <<it2>>, <<it3>>,
     <<it4>>, <<itShrink>>, <<itShrinkSp>>, <<itBig>>, <<itBig4>>, <<Num(7)>>,
     <<itA, itBlank, it4>>}

LongLengths ==
    (REMARKS_TABLE.max_rows - 1)..(REMARKS_TABLE.max_rows + MaxExtraRows)

\* long lists: the items 1, 2, 3, ... and a mix of short and overlong items
LongLists ==
    {[i \in 1..n |-> Num(i)] : n \in LongLengths}
    \cup {[i \in 1..n |-> <<itA, it4, itShrinkSp>>[(i % 3) + 1]] : n \in LongLengths}

LegacyTexts ==
    {<<>>, <<" ">>, <<"a">>, <<"\n">>, <<" ", "\n", "\n", " ">>,
     <<"a", "\n", "b">>, <<"a", "\n", "\n", " ", "b", " ">>,
     <<"a", "\n", " ", "\n", "b", "\n">>}

PayloadKeys ==
    InputNames \cup {"_labels", "remarksList", "remarks", "action", "table",
                     "toEmail", "fromEmail"}

EmptyPayload == [k \in PayloadKeys |-> None]

AllFilled == [k \in PayloadKeys |-> IF k \in InputNames THEN Str(<<"A">>) ELSE None]

ValueSamples ==
    {None, Str(<<>>), Str(<<" ">>), Str(<<" ", "1", "2", " ">>), Num(0), Num(7)}

FieldPayloads ==
    {[EmptyPayload EXCEPT ![n] = v] : n \in InputNames, v \in ValueSamples}
    \cup {AllFilled}

RemarksPayloads ==
    {[EmptyPayload EXCEPT !["remarksList"] = List(l)] : l \in ShortLists \cup LongLists}
    \cup {[EmptyPayload EXCEPT !["remarks"] = Str(t)] : t \in LegacyTexts}
    \cup {[EmptyPayload EXCEPT !["remarks"] = List(<<itA, itBlank>>)],
          [EmptyPayload EXCEPT !["remarks"] = Num(5)],
          [EmptyPayload EXCEPT !["remarksList"] = Num(3)],
          [EmptyPayload EXCEPT !["remarksList"] = Str(<<"a", "b">>)],
          [EmptyPayload EXCEPT !["remarksList"] = List(<<itA>>),
                               !["remarks"] = Str(<<"b", "\n", "c">>)]}

\* payloads with the _labels key: set (1), and present but not set (0)
LabelPayloads ==
    {[p EXCEPT !["_labels"] = Num(1)] :
        p \in {AllFilled}
              \cup {[EmptyPayload EXCEPT ![n] = v] :
                       n \in {"organization", "date"}, v \in ValueSamples}
              \cup {[EmptyPayload EXCEPT !["remarksList"] = List(l)] :
                       l \in {<<>>, <<itA>>, <<it4>>}}
              \cup {[EmptyPayload EXCEPT !["remarks"] = Str(t)] :
                       t \in {<<"a">>, <<"a", "\n", "b">>}}}
    \cup {[AllFilled EXCEPT !["_labels"] = Num(0)]}

StampPayloads == FieldPayloads \cup RemarksPayloads \cup LabelPayloads

email == Str(<<"e", "m", "a", "i", "l">>)
schema == Str(<<"s", "c", "h", "e", "m", "a">>)
address == Str(<<"a", "@", "b">>)

ActionPayloads ==
    {[p EXCEPT !["action"] = a, !["toEmail"] = t, !["fromEmail"] = f] :
        p \in {EmptyPayload, AllFilled, [EmptyPayload EXCEPT !["miles"] = Num(7)]},
        a \in {email, Str(<<"E", "M", "A", "I", "L">>)},
        t \in {None, Str(<<" ">>), address},
        f \in {None, address}}
    \cup {[EmptyPayload EXCEPT !["action"] = a] :
             a \in {Str(<<"d", "o", "w", "n", "l", "o", "a", "d">>), Str(<<"x">>)}}
    \cup {[EmptyPayload EXCEPT !["action"] = schema, !["table"] = t] :
             t \in {None, Str(<<" ">>), Str(<<"t">>)}}

\* json: what json.loads gives for the body
Events ==
    {[method |-> "POST", json |-> "dict", payload |-> p] :
        p \in StampPayloads \cup ActionPayloads}
    \cup {[method |-> m, json |-> "dict", payload |-> EmptyPayload] :
             m \in {"OPTIONS", "GET", "PUT", ""}}
    \cup {[method |-> "POST", json |-> "list", payload |-> EmptyPayload]}

Template(n) == [kind |-> "pdf", pages |-> [i \in 1..n |-> Page(i)]]

Files ==
    {[kind |-> "missing", pages |-> <<>>], [kind |-> "garbage", pages |-> <<>>]}
    \cup {Template(n) : n \in 0..MaxPages}

\* TEMPLATE_PATH, SES_FROM, TABLE_NAME (after .strip()) and the file at the path
Envs ==
    {[TEMPLATE_PATH |-> <<"t">>, file |-> f, SES_FROM |-> <<>>,
      TABLE_NAME |-> <<>>] : f \in Files}
    \cup {[TEMPLATE_PATH |-> <<"t">>, file |-> Template(1), SES_FROM |-> <<"c">>,
           TABLE_NAME |-> <<"c">>],
          [TEMPLATE_PATH |-> <<>>, file |-> Template(1), SES_FROM |-> <<>>,
           TABLE_NAME |-> <<>>]}

(***************************************************************************)
(* lambda_handler, one action per step of an invocation.                   *)
(***************************************************************************)
NoDoc == <<>>
NoValues == [fields |-> <<>>, REMARKS_LIST |-> None]
NoResp == [status |-> 0, kind |-> "none", error |-> "", doc |-> NoDoc]
NoPrev == [set |-> FALSE, values |-> NoValues, canvas |-> <<>>, out |-> NoDoc]
NoFile == [kind |-> "none", pages |-> <<>>]
NoEvent == [method |-> "", json |-> "dict", payload |-> EmptyPayload]
NoCall == [text |-> <<>>, max_width |-> 0, done |-> TRUE, lines |-> <<>>]

\* _resp(status, body): kind names the body, doc the document bytes in it
Resp(status, kind, error, doc) ==
    [status |-> status, kind |-> kind, error |-> error, doc |-> doc]

\* str.lower(), on the letters the actions of the model are written in
lowerChar(c) ==
    CASE c = "E" -> "e" [] c = "M" -> "m" [] c = "A" -> "a" [] c = "I" -> "i"
      [] c = "L" -> "l" [] OTHER -> c

lower(s) == [i \in 1..Len(s) |-> lowerChar(s[i])]

\* line 347
actionOf(payload) ==
    lower(IF Truthy(payload["action"]) THEN payload["action"].s
          ELSE <<"d", "o", "w", "n", "l", "o", "a", "d">>)

\* `(payload.get(k) or "").strip()`
stripped(v) == IF Truthy(v) THEN strip(v.s) ELSE <<>>

InitHandler ==
    /\ env \in Envs
    /\ today = 0
    /\ ses = FALSE
    /\ ddb = FALSE
    /\ pc = "idle"
    /\ event = NoEvent
    /\ tmpl = NoFile
    /\ values = NoValues
    /\ canvas = <<>>
    /\ rowsDrawn = <<>>
    /\ out = NoDoc
    /\ resp = NoResp
    /\ outbox = NoDoc
    /\ prev = NoPrev

\* the runtime calls lambda_handler(event, context): a fresh frame
Enter(e, remembered) ==
    /\ event' = e
    /\ pc' = "entry"
    /\ tmpl' = NoFile
    /\ values' = NoValues
    /\ canvas' = <<>>
    /\ rowsDrawn' = <<>>
    /\ out' = NoDoc
    /\ resp' = NoResp
    /\ outbox' = NoDoc
    /\ prev' = remembered
    /\ UNCHANGED <<env, today, ses, ddb, wrapCall>>

Invoke ==
    /\ pc = "idle"
    /\ \E e \in Events : Enter(e, NoPrev)

\* the response is delivered and the frame of the invocation is gone
Exit ==
    /\ pc = "done"
    /\ pc' = "idle"
    /\ event' = NoEvent
    /\ tmpl' = NoFile
    /\ values' = NoValues
    /\ canvas' = <<>>
    /\ rowsDrawn' = <<>>
    /\ out' = NoDoc
    /\ resp' = NoResp
    /\ outbox' = NoDoc
    /\ prev' = NoPrev
    /\ UNCHANGED <<env, today, ses, ddb, wrapCall>>

\* the same event again, after an invocation that stamped it: what that
\* invocation resolved and produced is remembered in prev
InvokeAgain ==
    /\ pc = "done"
    /\ out # NoDoc
    /\ Enter(event, [set |-> TRUE, values |-> values, canvas |-> canvas,
                     out |-> out])

\* the UTC day changes between two invocations
Tick ==
    /\ pc \in {"idle", "done"}
    /\ today < MaxDay
    /\ today' = today + 1
    /\ UNCHANGED <<env, ses, ddb, pc, event, tmpl, values, canvas, rowsDrawn,
                   out, resp, outbox, prev, wrapCall>>

Return(r) ==
    /\ resp' = r
    /\ pc' = "done"

\* lines 332-345: everything that is answered before the payload is looked at
Refuse ==
    /\ pc = "entry"
    /\ \/ event.method # "POST"
       \/ event.json # "dict"
    /\ Return(CASE event.method = "OPTIONS" -> Resp(200, "empty", "", NoDoc)
                [] event.method = "GET" -> Resp(200, "health", "", NoDoc)
                [] event.method # "POST" -> Resp(405, "error", "Method not allowed", NoDoc)
                [] OTHER -> Resp(400, "error", "Invalid JSON body", NoDoc))
    /\ UNCHANGED <<env, today, ses, ddb, event, tmpl, values, canvas, rowsDrawn,
                   out, outbox, prev, wrapCall>>

\* lines 350-358: action == "schema"; DescribeTable answers or fails
Schema ==
    /\ pc = "entry"
    /\ event.method = "POST"
    /\ event.json = "dict"
    /\ actionOf(event.payload) = schema.s
    /\ LET table == strip(IF Truthy(event.payload["table"])
                          THEN event.payload["table"].s ELSE env.TABLE_NAME)
       IN  IF table = <<>>
           THEN /\ Return(Resp(400, "error", "Provide table", NoDoc))
                /\ ddb' = ddb
           ELSE /\ ddb' = TRUE
                /\ \E answered \in BOOLEAN :
                      Return(IF answered THEN Resp(200, "schema", "", NoDoc)
                             ELSE Resp(500, "error", "DescribeTable failed", NoDoc))
    /\ UNCHANGED <<env, today, ses, event, tmpl, values, canvas, rowsDrawn, out,
                   outbox, prev, wrapCall>>

\* lines 361-364 and read_template_bytes
ReadTemplate ==
    /\ pc = "entry"
    /\ event.method = "POST"
    /\ event.json = "dict"
    /\ actionOf(event.payload) # schema.s
    /\ IF env.TEMPLATE_PATH = <<>> \/ env.file.kind = "missing"
       THEN /\ Return(Resp(500, "error", "Template read failed", NoDoc))
            /\ tmpl' = tmpl
       ELSE /\ tmpl' = env.file
            /\ pc' = "resolve"
            /\ resp' = resp
    /\ UNCHANGED <<env, today, ses, ddb, event, values, canvas, rowsDrawn, out,
                   outbox, prev, wrapCall>>

\* line 367
Resolve ==
    /\ pc = "resolve"
    /\ values' = to_pdf_values(event.payload, today)
    /\ pc' = "stamp"
    /\ UNCHANGED <<env, today, ses, ddb, event, tmpl, canvas, rowsDrawn, out,
                   resp, outbox, prev, wrapCall>>

\* lines 368-370
Stamp ==
    /\ pc = "stamp"
    /\ \E st \in {stamp(tmpl, values)} :
           IF st.ok
           THEN /\ out' = st.pages
                /\ canvas' = st.ops
                /\ rowsDrawn' = st.rows
                /\ pc' = "deliver"
                /\ resp' = resp
           ELSE /\ Return(Resp(500, "error", "Stamping failed", NoDoc))
                /\ UNCHANGED <<out, canvas, rowsDrawn>>
    /\ UNCHANGED <<env, today, ses, ddb, event, tmpl, values, outbox, prev,
                   wrapCall>>

\* lines 389-398
Download ==
    /\ pc = "deliver"
    /\ actionOf(event.payload) # email.s
    /\ Return(Resp(200, "pdf", "", out))
    /\ UNCHANGED <<env, today, ses, ddb, event, tmpl, values, canvas, rowsDrawn,
                   out, outbox, prev, wrapCall>>

\* lines 374-387 and send_pdf_email; SES accepts the message or fails
Email ==
    /\ pc = "deliver"
    /\ actionOf(event.payload) = email.s
    /\ LET to_email == stripped(event.payload["toEmail"])
           from_email == strip(IF Truthy(event.payload["fromEmail"])
                               THEN event.payload["fromEmail"].s ELSE env.SES_FROM)
       IN  IF to_email = <<>>
           THEN /\ Return(Resp(400, "error", "toEmail is required", NoDoc))
                /\ UNCHANGED <<ses, outbox>>
           ELSE IF from_email = <<>>
           THEN /\ Return(Resp(400, "error", "Set fromEmail", NoDoc))
                /\ UNCHANGED <<ses, outbox>>
           ELSE /\ ses' = TRUE
                /\ \E sent \in BOOLEAN :
                      IF sent
                      THEN /\ outbox' = out
                           /\ Return(Resp(200, "ok", "", NoDoc))
                      ELSE /\ outbox' = outbox
                           /\ Return(Resp(500, "error", "Email send failed", NoDoc))
    /\ UNCHANGED <<env, today, ddb, event, tmpl, values, canvas, rowsDrawn, out,
                   prev, wrapCall>>

Next ==
    \/ Invoke
    \/ Exit
    \/ Tick
    \/ Refuse
    \/ Schema
    \/ ReadTemplate
    \/ Resolve
    \/ Stamp
    \/ Download
    \/ Email

Init == InitHandler /\ wrapCall = NoCall

Spec == Init /\ [][Next]_vars

\* with the same event invoked twice
NextAgain == Next \/ InvokeAgain

SpecAgain == Init /\ [][NextAgain]_vars

(***************************************************************************)
(* _wrap_to_width on its own: a call on any short text over a narrow, a    *)
(* wide and a whitespace character, for a range of widths.                 *)
(***************************************************************************)
WrapChars == {"a", "W", " "}

WrapTexts == UNION {[1..n -> WrapChars] : n \in 0..MaxTextLen}

\* in points; at 8 pt "a" is 4.448 pt wide, "W" 7.552 pt and " " 2.224 pt
WrapWidths == {0, 4, 8, 12, 16, 20}

InitWrap ==
    /\ InitHandler
    /\ env.TEMPLATE_PATH = <<>>
    /\ wrapCall \in {[text |-> t, max_width |-> Points(m), done |-> FALSE,
                      lines |-> <<>>] : t \in WrapTexts, m \in WrapWidths}

WrapCall ==
    /\ ~wrapCall.done
    /\ wrapCall' = [wrapCall EXCEPT
                      !.lines = _wrap_to_width(wrapCall.text, wrapCall.max_width,
                                               REMARKS_TABLE.size),
                      !.done = TRUE]
    /\ UNCHANGED handlerVars

SpecWrap == InitWrap /\ [][WrapCall]_vars

(***************************************************************************)
(* Properties                                                              *)
(***************************************************************************)
Range(f) == {f[i] : i \in DOMAIN f}

\* the invocation is a POST of a JSON object on the PDF flow
PdfFlow ==
    /\ event.method = "POST"
    /\ event.json = "dict"
    /\ actionOf(event.payload) # schema.s

LabelsMode == Truthy(event.payload["_labels"])

Resolved == pc \in {"stamp", "deliver", "done"} /\ values # NoValues

\* stamp has returned its document
Stamped == pc \in {"deliver", "done"} /\ out # NoDoc

\* C1: a successful stamp yields as many pages as the template has, in the
\* template's order; page 1 carries the overlay, once, and every other page
\* is the template's page unchanged.
C1_PagesPreserved ==
    Stamped =>
        /\ Len(out) = Len(env.file.pages)
        /\ \A i \in 1..Len(out) :
              /\ out[i].id = env.file.pages[i].id
              /\ out[i].mediabox = env.file.pages[i].mediabox
        /\ out[1].merged = <<env.file.pages[1].mediabox>>
        /\ \A i \in 2..Len(out) : out[i] = env.file.pages[i]

C1_Witness == Stamped /\ Len(out) >= 3 /\ canvas # <<>>

\* a str that is blank after trimming, or no value at all
Blank(v) == v.t = "none" \/ (v.t = "str" /\ strip(v.s) = <<>>)

\* C2: without the labels toggle, every field of the layout table (DATE
\* included) whose input key is absent or blank after trimming resolves to
\* exactly its PLACEHOLDERS string.
C2_BlankResolvesToPlaceholder ==
    (Resolved /\ ~LabelsMode) =>
        \A k \in FieldKeys :
            Blank(event.payload[InputName(k)])
                => values.fields[k] = Str(PLACEHOLDERS(k))

\* a value that is there and is not blank: a non-blank str, or a number
\* (other than 0, which Python takes for no value)
Present(v) == (v.t = "num" /\ v.n # 0) \/ (v.t = "str" /\ strip(v.s) # <<>>)

\* the value as text, trimmed
Trimmed(v) == strip(pystr(v))

\* a template stamp can read, and a payload that gives nothing but fields
Stampable ==
    /\ env.TEMPLATE_PATH # <<>>
    /\ env.file.kind = "pdf"
    /\ env.file.pages # <<>>

FieldsOnly ==
    /\ event.payload["remarksList"] = None
    /\ event.payload["remarks"] = None

\* C3: without the labels toggle, every single-line field whose input is
\* present and non-empty after trimming (numbers included, as opaque text) is
\* resolved to that value, stamping succeeds, and exactly the trimmed value
\* is drawn at the field's anchor.
C3_PresentValueIsDrawn ==
    (PdfFlow /\ Stampable /\ FieldsOnly /\ ~LabelsMode /\ pc \in {"deliver", "done"})
        => \A k \in FieldKeys :
              Present(event.payload[InputName(k)])
                  => /\ Stamped
                     /\ Trimmed(values.fields[k]) = Trimmed(event.payload[InputName(k)])
                     /\ [x |-> FIELD_COORDS(k)[1], y |-> FIELD_COORDS(k)[2],
                         text |-> Trimmed(event.payload[InputName(k)])]
                            \in Range(canvas)

\* max(1, 1 + floor((row_gap - 2) / wrap_gap))
MaxLinesPerRow ==
    LET n == 1 + ((REMARKS_TABLE.row_gap - 2) \div REMARKS_TABLE.wrap_gap)
    IN  IF n > 1 THEN n ELSE 1

RowTexts(row) == [i \in 1..Len(row.lines) |-> row.lines[i].text]

\* C4: the remarks table draws at most max_rows rows, row r being item r of
\* the list (so no item after the first max_rows is drawn), and at most
\* MaxLinesPerRow lines in a row.
C4_RowAndLineCaps ==
    Stamped =>
        /\ Len(rowsDrawn) <= REMARKS_TABLE.max_rows
        /\ \A r \in 1..Len(rowsDrawn) :
              /\ Len(rowsDrawn[r].lines) <= MaxLinesPerRow
              /\ (values.REMARKS_LIST.t = "list" /\ values.REMARKS_LIST.items # <<>>
                  /\ rowsDrawn[r].wrapped <= MaxLinesPerRow)
                    => Join(RowTexts(rowsDrawn[r]))
                         = Join(split(pystr(values.REMARKS_LIST.items[r])))

C4_Witness ==
    /\ Stamped
    /\ values.REMARKS_LIST.t = "list"
    /\ Len(values.REMARKS_LIST.items) > REMARKS_TABLE.max_rows
    /\ Len(rowsDrawn) = REMARKS_TABLE.max_rows
    /\ \E r \in 1..Len(rowsDrawn) : rowsDrawn[r].wrapped > MaxLinesPerRow

OneWord(line) == line # <<>> /\ \A i \in 1..Len(line) : ~isspace(line[i])

\* C5: every line _wrap_to_width returns measures at most max_width, or is a
\* single word that alone exceeds max_width.
C5_LinesFit ==
    wrapCall.done =>
        \A i \in 1..Len(wrapCall.lines) :
            \/ stringWidth(wrapCall.lines[i], REMARKS_TABLE.size) <= wrapCall.max_width
            \/ OneWord(wrapCall.lines[i])

C5_Witness ==
    /\ wrapCall.done
    /\ wrapCall.max_width > 0
    /\ \E i, j \in 1..Len(wrapCall.lines) :
          /\ stringWidth(wrapCall.lines[i], REMARKS_TABLE.size) > wrapCall.max_width
          /\ ~OneWord(wrapCall.lines[j])

\* a value .strip() cannot be called on
Unstampable(vals) ==
    \/ \E k \in DOMAIN vals.fields :
          Truthy(vals.fields[k]) /\ vals.fields[k].t # "str"
    \/ vals.REMARKS_LIST.t = "num" /\ vals.REMARKS_LIST.n # 0

\* C6: on the PDF flow, when the template cannot be read, has no page, or
\* the values cannot be stamped, the response is an error without document
\* bytes and nothing is sent; a 200 with a document, or an email, comes only
\* with the document stamp returned.
C6_NoOutputOnFailure ==
    /\ (pc = "done" /\ PdfFlow /\ (~Stampable \/ Unstampable(values)))
          => /\ resp.status = 500
             /\ resp.kind = "error"
             /\ resp.doc = NoDoc
             /\ outbox = NoDoc
    /\ resp.kind = "error" => resp.status >= 400 /\ resp.doc = NoDoc
    /\ (resp.status = 200 /\ resp.kind \in {"pdf", "ok"})
          => /\ Stampable
             /\ ~Unstampable(values)
             /\ out # NoDoc
             /\ resp.kind = "pdf" => resp.doc = out
             /\ resp.kind = "ok" => outbox = out
    /\ outbox # NoDoc => Stampable /\ outbox = out /\ resp.kind = "ok"

C6_Witness ==
    /\ pc = "done"
    /\ PdfFlow
    /\ env.file.kind = "pdf"
    /\ env.file.pages = <<>>
    /\ actionOf(event.payload) = email.s
    /\ resp.error = "Stamping failed"

\* C7: two invocations with the same template and the same record resolve
\* the same field values and produce the same document, whenever they run.
C7_SameInputsSameOutput ==
    prev.set =>
        /\ Resolved => values = prev.values
        /\ Stamped => canvas = prev.canvas /\ out = prev.out

\* C8: in labels mode every field resolves to its label and the remarks to
\* the two sample rows, whatever the record holds.
C8_LabelsIgnoreInput ==
    (Resolved /\ LabelsMode) =>
        /\ DOMAIN values.fields = FieldKeys \cup {"REMARKS"}
        /\ \A k \in FieldKeys \cup {"REMARKS"} : values.fields[k] = Str(LABELS(k))
        /\ values.REMARKS_LIST.t = "list"
        /\ Len(values.REMARKS_LIST.items) = 2
        /\ values.REMARKS_LIST.items[1] = Str(LABELS("REMARKS"))
        /\ values.REMARKS_LIST.items[2] =
              Str(LABELS("REMARKS") \o <<" ", "(", "r", "o", "w", " ", "2", ")">>)

C8_Witness ==
    /\ Stamped
    /\ LabelsMode
    /\ Present(event.payload["organization"])
    /\ event.payload["organization"].t = "str"

\* C9: a row whose item wraps to more than MaxLinesPerRow lines shows exactly
\* MaxLinesPerRow lines; the last one ends with the ellipsis, is the last kept
\* line with trailing characters dropped and " ..." appended (or the ellipsis
\* alone), and measures at most max_width; the loop runs at most
\* len(last kept line) times.
C9_EllipsisFits ==
    Stamped =>
        \A r \in 1..Len(rowsDrawn) :
            rowsDrawn[r].wrapped > MaxLinesPerRow =>
                LET row == rowsDrawn[r]
                    last == row.lines[Len(row.lines)].text
                IN  /\ Len(row.lines) = MaxLinesPerRow
                    /\ last[Len(last)] = ELL
                    /\ \/ last = <<ELL>>
                       \/ \E n \in 1..Len(row.kept) :
                             last = SubSeq(row.kept, 1, n) \o <<" ", ELL>>
                    /\ stringWidth(last, REMARKS_TABLE.size)
                          <= Points(REMARKS_TABLE.max_width)
                    /\ row.steps <= Len(row.kept)

C9_Witness ==
    /\ Stamped
    /\ \E r \in 1..Len(rowsDrawn) :
          /\ rowsDrawn[r].wrapped > MaxLinesPerRow
          /\ rowsDrawn[r].steps = 1
          /\ Len(rowsDrawn[r].lines[MaxLinesPerRow].text) = Len(rowsDrawn[r].kept)

\* the characters of s that are no whitespace
Ink(s) == SelectSeq(s, LAMBDA c : ~isspace(c))

RECURSIVE Concat(_)
Concat(ss) == IF ss = <<>> THEN <<>> ELSE Head(ss) \o Concat(Tail(ss))

\* a legacy remarks string (or none) and no remarks list
LegacyRemarks ==
    /\ ~LabelsMode
    /\ event.payload["remarksList"] = None
    /\ event.payload["remarks"].t \in {"str", "none"}

\* C10: with no remarks list, the rows of a legacy string are its non-blank
\* lines; no drawn row is blank; and when no row remains, the one row drawn
\* is the placeholder, so at least one line of text is always drawn.
C10_LegacyRowsNeverBlank ==
    (Stamped /\ LegacyRemarks) =>
        /\ values.REMARKS_LIST.t = "list"
        /\ \A i \in 1..Len(values.REMARKS_LIST.items) :
              LET row == values.REMARKS_LIST.items[i].s
              IN  ~Blank(Str(row)) /\ "\n" \notin Range(row)
        /\ event.payload["remarks"].t = "str"
              => Concat([i \in 1..Len(values.REMARKS_LIST.items) |->
                            Ink(values.REMARKS_LIST.items[i].s)])
                   = Ink(event.payload["remarks"].s)
        /\ Len(rowsDrawn) >= 1
        /\ \A r \in 1..Len(rowsDrawn) :
              /\ Len(rowsDrawn[r].lines) >= 1
              /\ \A i \in 1..Len(rowsDrawn[r].lines) :
                    Ink(rowsDrawn[r].lines[i].text) # <<>>
        /\ Ink(event.payload["remarks"].s) = <<>>
              => /\ Len(rowsDrawn) = 1
                 /\ RowTexts(rowsDrawn[1]) = <<PLACEHOLDERS("REMARKS")>>

C10_Witness ==
    /\ Stamped
    /\ LegacyRemarks
    /\ event.payload["remarks"].t = "str"
    /\ Len(event.payload["remarks"].s) > 1
    /\ Ink(event.payload["remarks"].s) = <<>>

=============================================================================
